---- MODULE Spec2Model ----
(***************************************************************************)
(* InterviewHub front end: the session page (chat, then checklist), the    *)
(* Checklist component and the InterviewModal (knowledge test), together   *)
(* with the HTTP requests they keep in flight.                             *)
(*                                                                         *)
(* Conventions.                                                            *)
(*  - A nullable / optional JavaScript value is a sequence of length 0     *)
(*    (null, undefined) or 1 (the value).                                  *)
(*  - A text that the code inspects (ids matched by a regular expression,  *)
(*    typed input that is trimmed) is a sequence of one-character strings. *)
(*  - An async handler is split at its await: the part before it is one    *)
(*    action (a discrete browser event, after which React has re-rendered),*)
(*    the continuation after it is another (resolve or fail).  What the    *)
(*    continuation reads from the render that created it is carried in the *)
(*    request record (its closure).                                        *)
(*  - State setters of an unmounted component instance have no effect.     *)
(***************************************************************************)
EXTENDS Integers, Sequences, FiniteSets, TLC

\* ------------------------------------------------------------------ bounds
MaxInstances == 2      \* InterviewModal mounts per behaviour
MaxSends == 2          \* chat messages accepted by the server per behaviour
MaxResubmits == 0      \* answers of one modal submitted again after a failed submission
MaxListLoads == 2      \* listSessions calls in flight when the user navigates
MaxDeleteCalls == 2    \* deleteSession calls in flight
MaxPageReqs == 3       \* getSession / sendMessage calls of the session pages in flight

\* --------------------------------------------------------- program constants
TotalQuestions == 4    \* questions of one knowledge test
MaxNextActions == 3    \* entries of next_3_actions
PassThreshold == 700   \* 7.0 in hundredths of a rating point

\* ------------------------------------------------------------ optional values
Null == <<>>
Some(x) == <<x>>
IsSome(o) == Len(o) = 1
Val(o) == o[1]

\* ---------------------------------------------------------------- text helpers
Repeat(c, n) == [i \in 1..n |-> c]

HexChars == {"0", "1", "2", "3", "4", "5", "6", "7", "8", "9",
             "a", "b", "c", "d", "e", "f", "A", "B", "C", "D", "E", "F"}

\* /^[0-9a-f]{8}-[0-9a-f]{4}-[0-9a-f]{4}-[0-9a-f]{4}-[0-9a-f]{12}$/i .test(id)
UuidRegexTest(id) ==
    /\ Len(id) = 36
    /\ \A i \in 1..36 :
         IF i \in {9, 14, 19, 24} THEN id[i] = "-" ELSE id[i] \in HexChars

Whitespace == {" ", "\n", "\t"}

RECURSIVE TrimStart(_)
TrimStart(s) ==
    IF s = <<>> THEN <<>>
    ELSE IF Head(s) \in Whitespace THEN TrimStart(Tail(s)) ELSE s

RECURSIVE TrimEnd(_)
TrimEnd(s) ==
    IF s = <<>> THEN <<>>
    ELSE IF s[Len(s)] \in Whitespace THEN TrimEnd(SubSeq(s, 1, Len(s) - 1)) ELSE s

\* String.prototype.trim
Trim(s) == TrimEnd(TrimStart(s))

\* Array.prototype.flatMap over the groups' items
RECURSIVE FlatItems(_)
FlatItems(groups) ==
    IF groups = <<>> THEN <<>> ELSE Head(groups).items \o FlatItems(Tail(groups))

\* Array.prototype.find: the first element with the id, as an optional
RECURSIVE FindById(_, _)
FindById(items, id) ==
    IF items = <<>> THEN Null
    ELSE IF Head(items).id = id THEN Some(Head(items)) ELSE FindById(Tail(items), id)

\* ----------------------------------------------------------------- test data
UuidOf(c) == Repeat(c, 8) \o <<"-">> \o Repeat(c, 4) \o <<"-">> \o Repeat(c, 4)
             \o <<"-">> \o Repeat(c, 4) \o <<"-">> \o Repeat(c, 12)

IdSkillA == UuidOf("a")
IdSkillUpper == UuidOf("F")
IdLegacy == <<"n", "o", "t", "-", "a", "-", "u", "u", "i", "d">>
IdNotHex == UuidOf("g")
IdContext == UuidOf("1")

Item(id, group, text, status) ==
    [id |-> id, group_key |-> group, text |-> text, status |-> status,
     priority |-> Some("high"), estimate_minutes |-> Some(30), rationale |-> Null]

Groups(contextItems, skillsItems) ==
    << [key |-> "context", label |-> "Context Understanding", items |-> contextItems],
       [key |-> "skills", label |-> "Skills / Knowledge Prep", items |-> skillsItems],
       [key |-> "evidence", label |-> "Evidence & Examples", items |-> <<>>],
       [key |-> "delivery", label |-> "Delivery & Execution", items |-> <<>>],
       [key |-> "logistics", label |-> "Logistics & Risk", items |-> <<>>] >>

\* The checklist the server generates at the end of the chat.
GeneratedChecklist ==
    [title |-> "Frontend interview", event_type |-> "interview",
     assumptions |-> <<"Format not specified">>,
     groups |-> Groups(<< Item(IdContext, "context", "Read the job description", "todo") >>,
                       << Item(IdSkillA, "skills", "React hooks", "todo") >>),
     next_3_actions |-> <<"Read the job description", "React hooks">>]

\* Checklists stored by earlier visits, one item each: a skills item with its
\* id in upper case, skills items whose ids are no UUIDs (too short, or of the
\* right length with other characters), and a context item already done.
StoredChecklists ==
    { [GeneratedChecklist EXCEPT
         !.groups = Groups(<<>>, << Item(IdSkillUpper, "skills", "React hooks", "todo") >>)],
      [GeneratedChecklist EXCEPT
         !.groups = Groups(<<>>, << Item(IdLegacy, "skills", "CSS layout", "todo") >>)],
      [GeneratedChecklist EXCEPT
         !.groups = Groups(<<>>, << Item(IdNotHex, "skills", "Web performance", "todo") >>)],
      [GeneratedChecklist EXCEPT
         !.groups = Groups(<< Item(IdContext, "context", "Read the job description", "done") >>,
                           <<>>)] }

\* Ids the validator assigns to the items of a generated checklist, by
\* position; a regeneration takes the pool the checklist it replaces did not.
FreshIdsA == << UuidOf("2"), UuidOf("3") >>
FreshIdsB == << UuidOf("5"), UuidOf("6") >>

\* Item texts a model output carries.
TextStar == <<"S", "T", "A", "R">>
TextStarPadded == <<" ", "s", "t", "a", "r", " ">>
TextHooks == <<"h", "o", "o", "k", "s">>
TextJd == <<"J", "D">>

\* Raw model outputs: the groups in the order and with the keys the model
\* chose, items as texts, and the next actions it proposed.
RawOutputs ==
    { [title |-> "first", event_type |-> "interview", assumptions |-> <<>>,
       groups |-> << [key |-> "skills", items |-> <<TextStar>>],
                     [key |-> "context", items |-> <<TextJd>>] >>,
       next_3_actions |-> <<"n1", "n2">>],
      [title |-> "second", event_type |-> "interview", assumptions |-> <<"No format">>,
       groups |-> << [key |-> "misc", items |-> <<TextJd>>],
                     [key |-> "skills", items |-> <<TextStarPadded, TextHooks>>] >>,
       next_3_actions |-> <<"n1", "n2", "n3", "n4">>],
      [title |-> "third", event_type |-> "other", assumptions |-> <<>>,
       groups |-> << >>,
       next_3_actions |-> << >>] }

AllItemIds ==
    {IdSkillA, IdSkillUpper, IdLegacy, IdNotHex, IdContext}
       \cup {FreshIdsA[k] : k \in DOMAIN FreshIdsA} \cup {FreshIdsB[k] : k \in DOMAIN FreshIdsB}

\* Texts the user types into the chat box and into the answer box.
InputTexts == { <<" ">>, <<"h", "i", " ">> }
AnswerTexts == { <<" ", "o", "k">> }

\* Final ratings the summary can produce, in hundredths: 0, 6.99, 7.0.
RatingValues == {0, PassThreshold - 1, PassThreshold}

QuestionTexts == <<"Q1", "Q2", "Q3", "Q4">>

\* ------------------------------------------------------------------- state
VARIABLES
    \* SessionPage (app/session/[id]/page.tsx)
    session,            \* GetSessionResponse | null: [messages, checklist]
    pageIsLoading,      \* isLoading
    isSending,
    inputValue,
    \* Checklist (components/checklist.tsx); meaningful while it is mounted
    checklist,          \* local copy, optional (Null while not mounted)
    updatingIds,
    interviewTodoId,
    interviewTodoText,
    \* InterviewModal (components/interview-modal.tsx)
    modalInst,          \* number of mounts so far: identifies the instance
    modal,              \* the useState cells of the mounted instance
    \* requests in flight and pending timers, with their closures
    loadPending,
    sendReqs,
    startReqs,
    answerReqs,
    updateReqs,
    timers,
    \* back end
    srvMessages,
    srvChecklist,
    srvInterviews,
    \* Sidebar (components/sidebar.tsx)
    sbSessions,         \* sessions: the list shown
    sbIsLoading,
    pathname,           \* usePathname()
    listReqs,           \* listSessions calls in flight
    deleteReqs,         \* deleteSession calls in flight
    srvSessions,        \* the sessions the server lists
    \* SessionPage across route changes (the [id] segment of the route)
    routeId,            \* useParams().id
    pageReqs,           \* getSession / sendMessage calls of all page instances
    srvTranscripts,     \* the messages the server stores, by session id
    \* bookkeeping
    event               \* what the last step did (alerts, responses, drops)

pageVars == <<session, pageIsLoading, isSending, inputValue>>
checklistVars == <<checklist, updatingIds, interviewTodoId, interviewTodoText>>
modalVars == <<modalInst, modal>>
netVars == <<loadPending, sendReqs, startReqs, answerReqs, updateReqs, timers>>
srvVars == <<srvMessages, srvChecklist, srvInterviews>>
sidebarVars == <<sbSessions, sbIsLoading, pathname, listReqs, deleteReqs, srvSessions>>
routeVars == <<routeId, pageReqs, srvTranscripts>>
vars == <<pageVars, checklistVars, modalVars, netVars, srvVars, sidebarVars, routeVars, event>>

\* The useState initial values of InterviewModal.
FreshModal ==
    [currentQuestion |-> Null, answer |-> <<>>, isLoading |-> FALSE,
     feedback |-> Null, history |-> <<>>, isComplete |-> FALSE,
     rating |-> Null, passed |-> Null, overallFeedback |-> Null]

NoEvent == [kind |-> "none"]

\* A request id not used by a request of the set.
FreshRid(reqs) == CHOOSE n \in 0..Cardinality(reqs) : \A r \in reqs : r.rid # n

\* The sessions the server has, newest first.
StoredSessions ==
    << [session_id |-> "s1", title |-> "Frontend interview"],
       [session_id |-> "s2", title |-> "Design review"] >>

\* The messages the server stores for each session.
StoredTranscripts ==
    [id \in {"s1", "s2"} |->
        << [role |-> "user", content |-> <<"g", "o", "a", "l", " ", id>>],
           [role |-> "assistant", content |-> <<"Which role?">>] >>]

\* Sidebar mounts: useState initial values, and the effect calls loadSessions.
SidebarMounts ==
    /\ sbSessions = <<>>
    /\ sbIsLoading = TRUE
    /\ pathname = "/"
    /\ listReqs = {[rid |-> 0, data |-> Null]}
    /\ deleteReqs = {}
    /\ srvSessions = StoredSessions

MountedWith(stored) ==
    /\ session = Null
    /\ pageIsLoading = TRUE
    /\ isSending = FALSE
    /\ inputValue = <<>>
    /\ checklist = Null
    /\ updatingIds = {}
    /\ interviewTodoId = Null
    /\ interviewTodoText = Null
    /\ modalInst = 0
    /\ modal = FreshModal
    /\ loadPending = TRUE
    /\ sendReqs = {}
    /\ startReqs = {}
    /\ answerReqs = {}
    /\ updateReqs = {}
    /\ timers = {}
    /\ srvMessages = << [role |-> "user", content |-> <<"g", "o", "a", "l">>],
                        [role |-> "assistant", content |-> <<"Which role?">>] >>
    /\ srvChecklist = stored
    /\ srvInterviews = [id \in AllItemIds |-> Null]
    /\ SidebarMounts
    /\ routeId = "s1"
    /\ srvTranscripts = StoredTranscripts
    /\ event = NoEvent

InitWith(stored) == MountedWith(stored) /\ pageReqs = {}

\* An alert() shown by the step.
Alert(kind, text) == [kind |-> kind, alert |-> text]

\* ------------------------------------------------------- back end: sessions
\* GET /sessions/{id}: the stored session.
ServerSession == [messages |-> srvMessages, checklist |-> srvChecklist]

AssistantReply == [role |-> "assistant", content |-> <<"reply">>]

\* POST /sessions/{id}/message: the transcript with the user's turn and the
\* assistant's reply appended.
ServerTranscriptAfter(content) ==
    srvMessages \o << [role |-> "user", content |-> content], AssistantReply >>

\* --------------------------------------------------------------- SessionPage
\* loadSession, after getSession resolved.
LoadResolve ==
    /\ loadPending
    /\ loadPending' = FALSE
    /\ session' = Some(ServerSession)
    /\ pageIsLoading' = FALSE
    \* <Checklist> mounts with the loaded checklist as its initial state
    /\ checklist' = srvChecklist
    /\ event' = NoEvent
    /\ UNCHANGED <<isSending, inputValue, updatingIds, interviewTodoId, interviewTodoText,
                   modalVars, sendReqs, startReqs, answerReqs, updateReqs, timers,
                   srvVars>>
    /\ UNCHANGED sidebarVars
    /\ UNCHANGED routeVars

\* loadSession, after getSession failed.
LoadFail ==
    /\ loadPending
    /\ loadPending' = FALSE
    /\ pageIsLoading' = FALSE
    /\ event' = Alert("loadFailed", "Failed to load session")
    /\ UNCHANGED <<session, isSending, inputValue, checklistVars, modalVars,
                   sendReqs, startReqs, answerReqs, updateReqs, timers, srvVars>>
    /\ UNCHANGED sidebarVars
    /\ UNCHANGED routeVars

\* The page renders past its two early returns.
PageRendered == ~pageIsLoading /\ IsSome(session)

\* {!session.checklist && ( <form onSubmit={handleSend}> ... )}
FormShownAlways == PageRendered
FormShown == PageRendered /\ ~IsSome(Val(session).checklist)

\* <Textarea disabled={isSending}>
ChatTextareaDisabled == isSending

\* onChange of the chat textarea.
TypeInput(text) ==
    /\ FormShown
    /\ ~ChatTextareaDisabled
    /\ inputValue # text
    /\ inputValue' = text
    /\ event' = NoEvent
    /\ UNCHANGED <<session, pageIsLoading, isSending, checklistVars, modalVars,
                   netVars, srvVars>>
    /\ UNCHANGED sidebarVars
    /\ UNCHANGED routeVars

\* if (!inputValue.trim() || isSending || !session) return
HandleSendReturnsEarlyNoSession(input, sending, sess) == ~IsSome(sess)
HandleSendReturnsEarly(input, sending, sess) ==
    Trim(input) = <<>> \/ sending \/ ~IsSome(sess)

\* prevSession.messages.slice(0, -1)
RollbackKeepAll(messages) == messages
RollbackMessages(messages) == SubSeq(messages, 1, Len(messages) - 1)

\* handleSend up to its await: the form's submit event.
HandleSend ==
    /\ FormShown
    /\ IF HandleSendReturnsEarly(inputValue, isSending, session)
       THEN /\ event' = [kind |-> "sendDropped", sending |-> isSending]
            /\ UNCHANGED <<pageVars, netVars>>
       ELSE LET userMessage == Trim(inputValue)
                tempUserMessage == [role |-> "user", content |-> userMessage]
            IN /\ inputValue' = <<>>
               /\ isSending' = TRUE
               /\ session' = Some([Val(session) EXCEPT
                                     !.messages = @ \o <<tempUserMessage>>])
               /\ sendReqs' = sendReqs \cup
                     {[rid |-> FreshRid(sendReqs), content |-> userMessage,
                       before |-> Val(session)]}
               /\ event' = NoEvent
               /\ UNCHANGED <<pageIsLoading, loadPending, startReqs, answerReqs,
                              updateReqs, timers>>
    /\ UNCHANGED <<checklistVars, modalVars, srvVars>>
    /\ UNCHANGED sidebarVars
    /\ UNCHANGED routeVars

\* checklist: response.checklist || prevSession.checklist
MergedChecklist(respChecklist, prevChecklist) ==
    IF IsSome(respChecklist) THEN respChecklist ELSE prevChecklist

\* messages: response.messages
MergedMessagesAppended(respMessages, prevMessages) == prevMessages \o respMessages
MergedMessages(respMessages, prevMessages) == respMessages

\* finally { setIsSending(false) }
IsSendingKept(sending) == sending
IsSendingCleared(sending) == FALSE

\* handleSend after sendMessage resolved; the server answers with a follow-up
\* question (no checklist) or with the generated checklist.
SendResolve(req, generated) ==
    /\ req \in sendReqs
    /\ Len(srvMessages) < 2 + 2 * MaxSends
    /\ generated => ~IsSome(srvChecklist)
    /\ LET messages == ServerTranscriptAfter(req.content)
           respChecklist == IF generated THEN Some(GeneratedChecklist) ELSE Null
           newSession ==
               IF IsSome(session)
               THEN Some([Val(session) EXCEPT
                            !.messages = MergedMessages(messages, @),
                            !.checklist = MergedChecklist(respChecklist, @)])
               ELSE session
       IN /\ srvMessages' = messages
          /\ srvChecklist' = IF generated THEN respChecklist ELSE srvChecklist
          /\ session' = newSession
          \* <Checklist> mounts when the page first holds a checklist
          /\ checklist' = IF IsSome(checklist) \/ ~IsSome(newSession) THEN checklist
                          ELSE Val(newSession).checklist
    /\ sendReqs' = sendReqs \ {req}
    /\ isSending' = IsSendingCleared(isSending)
    /\ event' = [kind |-> "sendResolved", before |-> req.before, content |-> req.content,
                 messages |-> ServerTranscriptAfter(req.content)]
    /\ UNCHANGED <<pageIsLoading, inputValue, updatingIds, interviewTodoId,
                   interviewTodoText, modalVars, loadPending, startReqs, answerReqs,
                   updateReqs, timers, srvInterviews>>
    /\ UNCHANGED sidebarVars
    /\ UNCHANGED routeVars

\* handleSend after sendMessage failed: the catch block and finally.
SendFail(req) ==
    /\ req \in sendReqs
    /\ session' = IF IsSome(session)
                  THEN Some([Val(session) EXCEPT !.messages = RollbackMessages(@)])
                  ELSE session
    /\ sendReqs' = sendReqs \ {req}
    /\ isSending' = IsSendingCleared(isSending)
    /\ event' = [kind |-> "sendFailed", alert |-> "Failed to send message",
                 before |-> req.before]
    /\ UNCHANGED <<pageIsLoading, inputValue, checklistVars, modalVars, loadPending,
                   startReqs, answerReqs, updateReqs, timers, srvVars>>
    /\ UNCHANGED sidebarVars
    /\ UNCHANGED routeVars

\* ----------------------------------------------------------------- Checklist
\* session.checklist ? <Checklist .../> : chat
ChecklistMounted == PageRendered /\ IsSome(Val(session).checklist) /\ IsSome(checklist)

\* {interviewTodoId && interviewTodoText && ( <InterviewModal .../> )}
ModalMountedAlways(todoId, todoText) == TRUE
ModalMounted(todoId, todoText) == IsSome(todoId) /\ IsSome(todoText) /\ Val(todoText) # ""

\* <Dialog open={open}> with open = !!interviewTodoId
ModalOpen == ModalMounted(interviewTodoId, interviewTodoText) /\ IsSome(interviewTodoId)

\* The open dialog is modal: what lies behind it takes no clicks.
BackgroundInteractive == ChecklistMounted /\ ~ModalOpen

\* The InterviewModal cells after interviewTodoId / interviewTodoText changed:
\* kept while the component stays mounted, created afresh when it mounts,
\* gone when it unmounts.
ModalAfter(m, todoId, todoText) ==
    IF ModalMounted(todoId, todoText)
    THEN IF ModalMounted(interviewTodoId, interviewTodoText) THEN m ELSE FreshModal
    ELSE FreshModal

InstAfter(todoId, todoText) ==
    IF ModalMounted(todoId, todoText) /\ ~ModalMounted(interviewTodoId, interviewTodoText)
    THEN modalInst + 1 ELSE modalInst

\* A rewrite that loses the optional fields of the toggled item.
WithStatusOnly(cl, id, newStatus) ==
    LET SetItem(i) == IF i.id = id
                      THEN [i EXCEPT !.status = newStatus, !.priority = Null,
                                     !.estimate_minutes = Null]
                      ELSE i
        SetGroup(g) == [g EXCEPT !.items = [k \in 1..Len(g.items) |-> SetItem(g.items[k])]]
    IN [cl EXCEPT !.groups = [k \in 1..Len(cl.groups) |-> SetGroup(cl.groups[k])]]

\* groups.map(group => ({...group, items: group.items.map(i =>
\*   i.id === item.id ? {...i, status: newStatus} : i)}))
WithStatus(cl, id, newStatus) ==
    LET SetItem(i) == IF i.id = id THEN [i EXCEPT !.status = newStatus] ELSE i
        SetGroup(g) == [g EXCEPT !.items = [k \in 1..Len(g.items) |-> SetItem(g.items[k])]]
    IN [cl EXCEPT !.groups = [k \in 1..Len(cl.groups) |-> SetGroup(cl.groups[k])]]

\* item.status === "done" ? "todo" : "done"
NewStatus(item) == IF item.status = "done" THEN "todo" ELSE "done"

\* handleToggleTodo up to its await, in the render whose checklist is cl.
\* origin tells a manual toggle (Null) from the automatic completion of a
\* knowledge test (the instance and the rating that caused it).
ToggleRequest(item, cl, origin) ==
    [rid |-> FreshRid(updateReqs), item |-> item, status |-> NewStatus(item),
     closure |-> cl, origin |-> origin]

\* The items the component shows, with the key of the group showing each.
ShownItems(cl) ==
    UNION { { [group |-> cl.groups[g].key, item |-> cl.groups[g].items[i]] :
                i \in DOMAIN cl.groups[g].items } : g \in DOMAIN cl.groups }

AllShown == IF IsSome(checklist) THEN ShownItems(Val(checklist)) ELSE {}

\* <button onClick={() => handleToggleTodo(item)} disabled={updatingIds.has(item.id)}>
ToggleDisabled(item) == item.id \in updatingIds

\* A click on an item's toggle button.
ToggleClick(shown) ==
    /\ BackgroundInteractive
    /\ shown \in ShownItems(Val(checklist))
    /\ ~ToggleDisabled(shown.item)
    /\ updatingIds' = updatingIds \cup {shown.item.id}
    /\ updateReqs' = updateReqs \cup {ToggleRequest(shown.item, Val(checklist), Null)}
    /\ event' = NoEvent
    /\ UNCHANGED <<pageVars, checklist, interviewTodoId, interviewTodoText, modalVars,
                   loadPending, sendReqs, startReqs, answerReqs, timers, srvVars>>
    /\ UNCHANGED sidebarVars
    /\ UNCHANGED routeVars

\* finally { setUpdatingIds((prev) => { next = new Set(prev); next.delete(item.id) }) }
UpdatingIdsKept(prev, id) == prev
UpdatingIdsCleared(prev, id) == prev \ {id}

\* PATCH /sessions/{id}/todos/{todoId} fails with NotFound for an unknown item.
ServerHasItem(stored, id) ==
    IsSome(stored) /\ IsSome(FindById(FlatItems(Val(stored).groups), id))

\* PATCH /sessions/{id}/todos/{todoId}: the store's point update of one item.
ServerUpdateItem(stored, id, newStatus) ==
    IF IsSome(stored) THEN Some(WithStatus(Val(stored), id, newStatus)) ELSE stored

\* SessionPage's onUpdate:
\*   setSession((prev) => prev ? { ...prev, checklist: updatedChecklist } : prev)
OnUpdateClearsChecklist(prev, updatedChecklist) ==
    IF IsSome(prev) THEN Some([Val(prev) EXCEPT !.checklist = Null]) ELSE prev
OnUpdate(prev, updatedChecklist) ==
    IF IsSome(prev) THEN Some([Val(prev) EXCEPT !.checklist = Some(updatedChecklist)])
    ELSE prev

\* handleToggleTodo after updateTodo resolved.
UpdateResolve(req) ==
    /\ req \in updateReqs
    /\ ServerHasItem(srvChecklist, req.item.id)
    /\ LET updatedChecklist == WithStatus(req.closure, req.item.id, req.status)
       IN /\ checklist' = Some(updatedChecklist)
          /\ session' = OnUpdate(session, updatedChecklist)
    /\ updatingIds' = UpdatingIdsCleared(updatingIds, req.item.id)
    /\ updateReqs' = updateReqs \ {req}
    /\ event' = [kind |-> "updateResolved", item |-> req.item.id, status |-> req.status,
                 before |-> checklist]
    /\ srvChecklist' = ServerUpdateItem(srvChecklist, req.item.id, req.status)
    /\ UNCHANGED <<pageIsLoading, isSending, inputValue, interviewTodoId,
                   interviewTodoText, modalVars, loadPending, sendReqs, startReqs,
                   answerReqs, timers, srvMessages, srvInterviews>>
    /\ UNCHANGED sidebarVars
    /\ UNCHANGED routeVars

\* handleToggleTodo after updateTodo failed.
UpdateFail(req) ==
    /\ req \in updateReqs
    /\ updatingIds' = UpdatingIdsCleared(updatingIds, req.item.id)
    /\ updateReqs' = updateReqs \ {req}
    /\ event' = Alert("updateFailed", "Failed to update todo. Please try again.")
    /\ UNCHANGED <<pageVars, checklist, interviewTodoId, interviewTodoText, modalVars,
                   loadPending, sendReqs, startReqs, answerReqs, timers, srvVars>>
    /\ UNCHANGED sidebarVars
    /\ UNCHANGED routeVars

\* {group.key === "skills" && item.status !== "done" && ( <Button>Test Knowledge )}
TestKnowledgeShownAlways(shown) == TRUE
TestKnowledgeShown(shown) == shown.group = "skills" /\ shown.item.status # "done"

\* if (!uuidRegex.test(item.id)) { alert(...); return }
TestKnowledgeAcceptsAny(id) == TRUE
TestKnowledgeAccepts(id) == UuidRegexTest(id)

\* A click on an item's Test Knowledge button.
TestKnowledgeClick(shown) ==
    /\ BackgroundInteractive
    /\ shown \in ShownItems(Val(checklist))
    /\ TestKnowledgeShown(shown)
    /\ IF ~TestKnowledgeAccepts(shown.item.id)
       THEN /\ event' = [kind |-> "testRefused", todoId |-> shown.item.id,
                         alert |-> "Invalid checklist item ID. Please refresh the page to regenerate the checklist."]
            /\ UNCHANGED <<interviewTodoId, interviewTodoText, modalVars>>
       ELSE /\ InstAfter(Some(shown.item.id), Some(shown.item.text)) <= MaxInstances
            /\ interviewTodoId' = Some(shown.item.id)
            /\ interviewTodoText' = Some(shown.item.text)
            /\ modal' = ModalAfter(modal, Some(shown.item.id), Some(shown.item.text))
            /\ modalInst' = InstAfter(Some(shown.item.id), Some(shown.item.text))
            /\ event' = NoEvent
    /\ UNCHANGED <<pageVars, checklist, updatingIds, netVars, srvVars>>
    /\ UNCHANGED sidebarVars
    /\ UNCHANGED routeVars

\* -------------------------------------------------- back end: knowledge test
\* summarizeInterview: the pass flag of a final rating.
Passed(r) == r >= PassThreshold

Question(n) ==
    [question |-> <<QuestionTexts[n]>>, question_number |-> n,
     total_questions |-> TotalQuestions]

Response(question, fb, complete, overall, rt, pass) ==
    [question |-> question, feedback |-> fb, is_complete |-> complete,
     overall_feedback |-> overall, rating |-> rt, passed |-> pass]

\* start: the id must be UUID-shaped, else InvalidId and no state.
ServerStartAccepts(todoId) == UuidRegexTest(todoId)
StartedInterview == Some([question_number |-> 1, answered |-> 0, complete |-> FALSE])
StartResponse == Response(Some(Question(1)), Null, FALSE, Null, Null, Null)

\* InterviewResponse.question is optional: a start answered without a question.
StartResponses == {StartResponse, [StartResponse EXCEPT !.question = Null]}

\* answer: accepted while the sub-dialogue exists and is not complete.
ServerAnswerAccepts(todoId) ==
    IsSome(srvInterviews[todoId]) /\ ~Val(srvInterviews[todoId]).complete

\* The answer that ends the test is the one to question number total.
IsLastQuestionEarly(iv) == iv.question_number >= TotalQuestions - 1
IsLastQuestion(iv) == iv.question_number = TotalQuestions

\* answer: the sub-dialogue after the answer, given the final rating r that a
\* summary would produce.
InterviewAfterAnswer(iv) ==
    IF IsLastQuestion(iv)
    THEN [iv EXCEPT !.answered = @ + 1, !.complete = TRUE]
    ELSE [iv EXCEPT !.answered = @ + 1, !.question_number = @ + 1]

AnswerResponse(iv, r) ==
    IF IsLastQuestion(iv)
    THEN Response(Null, Null, TRUE, Some("overall"), Some(r), Some(Passed(r)))
    ELSE Response(Some(Question(iv.question_number + 1)), Some(<<"fb">>),
                  FALSE, Null, Null, Null)

\* ------------------------------------------------------------ InterviewModal
\* {!currentQuestion && !isComplete && ( start view )}
StartViewShown == ~IsSome(modal.currentQuestion) /\ ~modal.isComplete

\* {currentQuestion && !isComplete && ( asking view )}
AskingViewShownWhenComplete == IsSome(modal.currentQuestion)
AskingViewShown == IsSome(modal.currentQuestion) /\ ~modal.isComplete

\* <Textarea disabled={isLoading}>
AnswerTextareaEnabledAlways == FALSE
AnswerTextareaDisabled == modal.isLoading

\* <Button disabled={!answer.trim() || isLoading}>
SubmitDisabled == Trim(modal.answer) = <<>> \/ modal.isLoading

\* catch { alert(...) } finally { setIsLoading(false) }: what a failed
\* startInterview or answerInterviewQuestion leaves of the modal cells.
ModalAfterFailureStillLoading(m) == m
ModalAfterFailure(m) == [m EXCEPT !.isLoading = FALSE]

\* The instance that issued req is the one mounted now.
StillMounted(req) ==
    ModalMounted(interviewTodoId, interviewTodoText) /\ req.inst = modalInst

\* onClose of the Checklist: both cells to null, which unmounts the modal.
OnClose(m) ==
    /\ interviewTodoId' = Null
    /\ interviewTodoText' = Null
    /\ modal' = ModalAfter(m, Null, Null)
    /\ modalInst' = InstAfter(Null, Null)

\* handleStart up to its await: a click on Start Knowledge Test.
HandleStart ==
    /\ ModalOpen
    /\ StartViewShown
    /\ ~modal.isLoading
    /\ IF ~UuidRegexTest(Val(interviewTodoId))
       THEN /\ OnClose(modal)
            /\ event' = [kind |-> "startRefused", todoId |-> Val(interviewTodoId),
                         alert |-> "Invalid checklist item ID detected. Please refresh the page to regenerate the checklist with proper IDs, then try again."]
            /\ UNCHANGED startReqs
       ELSE /\ modal' = [modal EXCEPT !.isLoading = TRUE]
            /\ startReqs' = startReqs \cup
                  {[rid |-> FreshRid(startReqs), inst |-> modalInst,
                    todoId |-> Val(interviewTodoId), todoText |-> Val(interviewTodoText)]}
            /\ event' = NoEvent
            /\ UNCHANGED <<interviewTodoId, interviewTodoText, modalInst>>
    /\ UNCHANGED <<pageVars, checklist, updatingIds, loadPending, sendReqs, answerReqs,
                   updateReqs, timers, srvVars>>
    /\ UNCHANGED sidebarVars
    /\ UNCHANGED routeVars

\* The modal cells after a response to the start:
\*   if (response.question) { setCurrentQuestion(...); setHistory([...]) }
\*   finally { setIsLoading(false) }
ModalAfterStartNoFinally(m, response) ==
    IF IsSome(response.question)
    THEN [m EXCEPT
            !.currentQuestion = response.question,
            !.history = <<[role |-> "assistant",
                           content |-> Val(response.question).question]>>,
            !.isLoading = FALSE]
    ELSE m
ModalAfterStart(m, response) ==
    IF IsSome(response.question)
    THEN [m EXCEPT
            !.currentQuestion = response.question,
            !.history = <<[role |-> "assistant",
                           content |-> Val(response.question).question]>>,
            !.isLoading = FALSE]
    ELSE [m EXCEPT !.isLoading = FALSE]

\* handleStart after startInterview resolved with response; the sub-dialogue
\* is created when the response carries its first question.
StartResolve(req, response) ==
    /\ req \in startReqs
    /\ ServerStartAccepts(req.todoId)
    /\ srvInterviews' = IF IsSome(response.question)
                        THEN [srvInterviews EXCEPT ![req.todoId] = StartedInterview]
                        ELSE srvInterviews
    /\ modal' = IF StillMounted(req) THEN ModalAfterStart(modal, response) ELSE modal
    /\ startReqs' = startReqs \ {req}
    /\ event' = [kind |-> "startResolved", inst |-> req.inst, response |-> response]
    /\ UNCHANGED <<pageVars, checklistVars, modalInst, loadPending, sendReqs, answerReqs,
                   updateReqs, timers, srvMessages, srvChecklist>>
    /\ UNCHANGED sidebarVars
    /\ UNCHANGED routeVars

\* handleStart after startInterview failed: the request was lost, or the
\* server refused the id.
StartFail(req) ==
    /\ req \in startReqs
    /\ LET refused == ~ServerStartAccepts(req.todoId)
       IN event' = [kind |-> "startFailed", inst |-> req.inst,
                    alert |-> IF refused
                              THEN "Invalid checklist item ID. Please refresh the page to regenerate the checklist, then try again."
                              ELSE "Failed to start interview"]
    /\ modal' = IF StillMounted(req) THEN ModalAfterFailure(modal) ELSE modal
    /\ startReqs' = startReqs \ {req}
    /\ UNCHANGED <<pageVars, checklistVars, modalInst, loadPending, sendReqs, answerReqs,
                   updateReqs, timers, srvVars>>
    /\ UNCHANGED sidebarVars
    /\ UNCHANGED routeVars

\* onChange of the answer textarea.
TypeAnswer(text) ==
    /\ ModalOpen
    /\ AskingViewShown
    /\ ~AnswerTextareaDisabled
    /\ modal.answer # text
    /\ modal' = [modal EXCEPT !.answer = text]
    /\ event' = NoEvent
    /\ UNCHANGED <<pageVars, checklistVars, modalInst, netVars, srvVars>>
    /\ UNCHANGED sidebarVars
    /\ UNCHANGED routeVars

\* The entries of the history when question n is asked and no answer failed:
\* a question, an answer and a feedback per question before, and question n.
\* A failed submission leaves its answer in the history.
PlainHistory(n) == 3 * (n - 1) + 1

\* handleSubmitAnswer up to its await.  The request carries what the
\* continuation reads from this render: the onComplete prop, which closes over
\* the Checklist's checklist and interviewTodoId.
HandleSubmitAnswer ==
    /\ IF Trim(modal.answer) = <<>>
       THEN /\ event' = NoEvent
            /\ UNCHANGED <<modal, answerReqs>>
       ELSE /\ Len(modal.history) <= PlainHistory(Val(modal.currentQuestion).question_number) + MaxResubmits
            /\ modal' = [modal EXCEPT
                           !.isLoading = TRUE,
                           !.answer = <<>>,
                           !.history = @ \o <<[role |-> "user", content |-> modal.answer]>>]
            /\ answerReqs' = answerReqs \cup
                  {[rid |-> FreshRid(answerReqs), inst |-> modalInst,
                    todoId |-> Val(interviewTodoId), answer |-> modal.answer,
                    closure |-> [checklist |-> Val(checklist),
                                 interviewTodoId |-> interviewTodoId]]}
            /\ event' = NoEvent
    /\ UNCHANGED <<pageVars, checklistVars, modalInst, loadPending, sendReqs, startReqs,
                   updateReqs, timers, srvVars>>
    /\ UNCHANGED sidebarVars
    /\ UNCHANGED routeVars

\* A click on Submit Answer.
SubmitClick ==
    /\ ModalOpen
    /\ AskingViewShown
    /\ ~SubmitDisabled
    /\ HandleSubmitAnswer

\* Ctrl/Cmd+Enter in the answer textarea.
SubmitKeyDown ==
    /\ ModalOpen
    /\ AskingViewShown
    /\ ~AnswerTextareaDisabled
    /\ HandleSubmitAnswer

\* response.rating || null, response.passed || null, response.overall_feedback || null
OrNullNumber(o) == IF IsSome(o) /\ Val(o) # 0 THEN o ELSE Null
OrNullBool(o) == IF IsSome(o) /\ Val(o) THEN o ELSE Null
OrNullText(o) == IF IsSome(o) /\ Val(o) # "" THEN o ELSE Null

\* rating.toFixed(1): a rating in hundredths rounded to tenths.
ToFixed1(r) == (r + 5) \div 10

\* {rating !== null && ( <span>{rating.toFixed(1)}</span> / 10 )}: the number
\* the completed view shows, in tenths, or Null when the line is not rendered.
RatingShown(m) == IF m.rating # Null THEN Some(ToFixed1(Val(m.rating))) ELSE Null

\* {passed ? "You Passed!" : "Keep Practicing"}: TRUE for "You Passed!".
PassedShown(m) == m.passed = Some(TRUE)

\* if (onComplete && response.passed !== undefined && response.rating !== undefined
\*     && response.passed) onComplete(response.passed, response.rating)
\* The arguments of the call, or Null when it is not made.
OnCompleteCallOnCompletion(response) ==
    IF response.is_complete /\ IsSome(response.rating)
    THEN Some([passed |-> response.is_complete, rating |-> Val(response.rating)])
    ELSE Null
OnCompleteCall(response) ==
    IF /\ response.is_complete
       /\ IsSome(response.passed) /\ IsSome(response.rating) /\ Val(response.passed)
    THEN Some([passed |-> Val(response.passed), rating |-> Val(response.rating)])
    ELSE Null

\* Checklist's onComplete: if (passed && interviewTodoId) setTimeout(..., 200)
OnCompleteTimers(call, req) ==
    IF IsSome(call) /\ Val(call).passed /\ IsSome(req.closure.interviewTodoId)
    THEN {[rid |-> FreshRid(timers), inst |-> req.inst,
           todoId |-> Val(req.closure.interviewTodoId),
           closure |-> req.closure.checklist, rating |-> Val(call).rating]}
    ELSE {}

\* The modal cells after a response to an answer.
ModalAfterAnswer(m, response) ==
    IF response.is_complete
    THEN [m EXCEPT !.isComplete = TRUE,
                   !.rating = OrNullNumber(response.rating),
                   !.passed = OrNullBool(response.passed),
                   !.overallFeedback = OrNullText(response.overall_feedback),
                   !.isLoading = FALSE]
    ELSE LET withFeedback ==
                 IF IsSome(response.feedback)
                 THEN [m EXCEPT
                         !.feedback = response.feedback,
                         !.history = @ \o <<[role |-> "assistant",
                                             content |-> <<"Feedback: ">> \o Val(response.feedback)]>>]
                 ELSE m
             withQuestion ==
                 IF IsSome(response.question)
                 THEN [withFeedback EXCEPT
                         !.currentQuestion = response.question,
                         !.history = @ \o <<[role |-> "assistant",
                                             content |-> Val(response.question).question]>>,
                         !.feedback = Null]
                 ELSE withFeedback
         IN [withQuestion EXCEPT !.isLoading = FALSE]

\* handleSubmitAnswer after answerInterviewQuestion resolved; r is the rating
\* the summary gives if this answer ends the test.
AnswerResolve(req, r) ==
    /\ req \in answerReqs
    /\ ServerAnswerAccepts(req.todoId)
    /\ LET iv == Val(srvInterviews[req.todoId])
           response == AnswerResponse(iv, r)
       IN /\ ~IsLastQuestion(iv) => r = 0
          /\ srvInterviews' = [srvInterviews EXCEPT
                                 ![req.todoId] = Some(InterviewAfterAnswer(iv))]
          /\ modal' = IF StillMounted(req) THEN ModalAfterAnswer(modal, response) ELSE modal
          /\ timers' = timers \cup OnCompleteTimers(OnCompleteCall(response), req)
          /\ event' = [kind |-> "answerResolved", inst |-> req.inst, todoId |-> req.todoId,
                       response |-> response,
                       statusNow |-> LET it == FindById(FlatItems(Val(checklist).groups), req.todoId)
                                     IN IF IsSome(it) THEN Val(it).status ELSE "none"]
    /\ answerReqs' = answerReqs \ {req}
    /\ UNCHANGED <<pageVars, checklistVars, modalInst, loadPending, sendReqs, startReqs,
                   updateReqs, srvMessages, srvChecklist>>
    /\ UNCHANGED sidebarVars
    /\ UNCHANGED routeVars

\* handleSubmitAnswer after answerInterviewQuestion failed: the request was
\* lost, or the server refused it (no sub-dialogue, or a complete one).
AnswerFail(req) ==
    /\ req \in answerReqs
    /\ modal' = IF StillMounted(req) THEN ModalAfterFailure(modal) ELSE modal
    /\ answerReqs' = answerReqs \ {req}
    /\ event' = [kind |-> "answerFailed", inst |-> req.inst,
                 alert |-> "Failed to submit answer. Please try again."]
    /\ UNCHANGED <<pageVars, checklistVars, modalInst, loadPending, sendReqs, startReqs,
                   updateReqs, timers, srvVars>>
    /\ UNCHANGED sidebarVars
    /\ UNCHANGED routeVars

\* handleClose: the dialog's onOpenChange, and the Close button.
HandleClose ==
    /\ ModalOpen
    /\ OnClose(IF modal.isComplete
               THEN [modal EXCEPT !.currentQuestion = Null, !.answer = <<>>,
                                  !.feedback = Null, !.history = <<>>,
                                  !.isComplete = FALSE, !.rating = Null,
                                  !.passed = Null, !.overallFeedback = Null]
               ELSE modal)
    /\ event' = NoEvent
    /\ UNCHANGED <<pageVars, checklist, updatingIds, netVars, srvVars>>
    /\ UNCHANGED sidebarVars
    /\ UNCHANGED routeVars

\* The timeout set by Checklist's onComplete fires:
\*   item = checklist.groups.flatMap(g => g.items).find(i => i.id === interviewTodoId)
\*   if (item && item.status !== "done") handleToggleTodo(item)
\* with checklist, interviewTodoId and handleToggleTodo those of the render that
\* made the callback.
TimerFire(t) ==
    /\ t \in timers
    /\ timers' = timers \ {t}
    /\ LET item == FindById(FlatItems(t.closure.groups), t.todoId)
       IN IF IsSome(item) /\ Val(item).status # "done"
          THEN /\ updatingIds' = updatingIds \cup {Val(item).id}
               /\ updateReqs' = updateReqs \cup {ToggleRequest(Val(item), t.closure,
                                              Some([inst |-> t.inst, rating |-> t.rating]))}
               /\ event' = [kind |-> "autoIssued", inst |-> t.inst, todoId |-> t.todoId]
          ELSE /\ UNCHANGED <<updatingIds, updateReqs>>
               /\ event' = [kind |-> "autoSkipped", inst |-> t.inst, todoId |-> t.todoId]
    /\ UNCHANGED <<pageVars, checklist, interviewTodoId, interviewTodoText, modalVars,
                   loadPending, sendReqs, startReqs, answerReqs, srvVars>>
    /\ UNCHANGED sidebarVars
    /\ UNCHANGED routeVars

\* ------------------------------------- back end: validation and regeneration
\* The fixed group keys, in their fixed order.
FixedGroupKeys == [k \in 1..5 |-> Groups(<<>>, <<>>)[k].key]

\* Text normalisation for matching: surrounding white space and letter case
\* do not count.
Lower(c) ==
    CASE c = "S" -> "s" [] c = "T" -> "t" [] c = "A" -> "a" [] c = "R" -> "r"
      [] c = "J" -> "j" [] c = "D" -> "d" [] OTHER -> c
Normalize(text) == [i \in 1..Len(Trim(text)) |-> Lower(Trim(text)[i])]

\* next_3_actions is truncated to at most 3 entries, never padded.
Truncated(actions) == SubSeq(actions, 1, IF Len(actions) < MaxNextActions
                                         THEN Len(actions) ELSE MaxNextActions)

\* The texts a raw output gives for a group key (groups of unknown keys are
\* never asked for, which drops them).
RECURSIVE RawItems(_, _)
RawItems(rawGroups, key) ==
    IF rawGroups = <<>> THEN <<>>
    ELSE (IF Head(rawGroups).key = key THEN Head(rawGroups).items ELSE <<>>)
            \o RawItems(Tail(rawGroups), key)

RECURSIVE ItemsBefore(_, _)
ItemsBefore(rawGroups, k) ==
    IF k = 1 THEN 0
    ELSE ItemsBefore(rawGroups, k - 1) + Len(RawItems(rawGroups, FixedGroupKeys[k - 1]))

\* A validator that trusts the model output: its groups and actions as given.
ValidateTrusting(raw, ids) ==
    [title |-> raw.title, event_type |-> raw.event_type, assumptions |-> raw.assumptions,
     groups |-> [g \in 1..Len(raw.groups) |->
                   [key |-> raw.groups[g].key, label |-> raw.groups[g].key,
                    items |-> [i \in 1..Len(raw.groups[g].items) |->
                                 Item(ids[i], raw.groups[g].key,
                                      raw.groups[g].items[i], "todo")]]],
     next_3_actions |-> raw.next_3_actions]

\* Validation of a raw output: the five fixed groups in their order, each item
\* with a fresh id and status todo, the next actions truncated.
Validate(raw, ids) ==
    [title |-> raw.title, event_type |-> raw.event_type, assumptions |-> raw.assumptions,
     groups |-> [k \in 1..5 |->
                   [Groups(<<>>, <<>>)[k] EXCEPT
                      !.items = [i \in 1..Len(RawItems(raw.groups, FixedGroupKeys[k])) |->
                                   Item(ids[ItemsBefore(raw.groups, k) + i],
                                        FixedGroupKeys[k],
                                        RawItems(raw.groups, FixedGroupKeys[k])[i],
                                        "todo")]]],
     next_3_actions |-> Truncated(raw.next_3_actions)]

\* The id pool the stored checklist does not use.
IdsAfter(stored) ==
    IF IsSome(stored) /\ \E it \in {FlatItems(Val(stored).groups)[i] :
                                      i \in DOMAIN FlatItems(Val(stored).groups)} :
                            it.id \in {FreshIdsA[k] : k \in DOMAIN FreshIdsA}
    THEN FreshIdsB ELSE FreshIdsA

\* An old item that is done and whose normalised text is that of the text.
DoneMatch(old, text) ==
    \E i \in DOMAIN FlatItems(old.groups) :
       /\ FlatItems(old.groups)[i].status = "done"
       /\ Normalize(FlatItems(old.groups)[i].text) = Normalize(text)

\* A regeneration that starts every item anew.
CarryForwardNone(old, new) == new

\* Carry-forward: a new item whose normalised text matches an old item that
\* is done is done.
CarryForward(old, new) ==
    [new EXCEPT !.groups =
       [k \in 1..Len(new.groups) |->
          [new.groups[k] EXCEPT !.items =
             [i \in 1..Len(new.groups[k].items) |->
                IF DoneMatch(old, new.groups[k].items[i].text)
                THEN [new.groups[k].items[i] EXCEPT !.status = "done"]
                ELSE new.groups[k].items[i]]]]]

\* The page starts anew and loads the session; the continuations of the
\* calls in flight go with the old page.
PageReloads ==
    /\ session' = Null
    /\ pageIsLoading' = TRUE
    /\ isSending' = FALSE
    /\ inputValue' = <<>>
    /\ checklist' = Null
    /\ updatingIds' = {}
    /\ loadPending' = TRUE
    /\ updateReqs' = {}
    /\ UNCHANGED <<interviewTodoId, interviewTodoText, modalVars, sendReqs, startReqs,
                   answerReqs, timers>>
    /\ UNCHANGED sidebarVars
    /\ UNCHANGED routeVars

\* The user reloads the page.
Reload ==
    /\ ~loadPending
    /\ PageReloads
    /\ event' = NoEvent
    /\ UNCHANGED srvVars

\* The user has the session's checklist regenerated from a new model output,
\* and the page loads the session anew.
Regenerate(raw) ==
    /\ ~loadPending
    /\ IsSome(srvChecklist)
    /\ srvChecklist' = Some(CarryForward(Val(srvChecklist),
                                         Validate(raw, IdsAfter(srvChecklist))))
    /\ PageReloads
    /\ event' = [kind |-> "regenerated", old |-> Val(srvChecklist)]
    /\ UNCHANGED <<srvMessages, srvInterviews>>

\* The groups the Checklist presents, in order:
\*   checklist.groups.map((group) => { if (group.items.length === 0) return null ... })
PresentedGroupsAll(cl) == cl.groups
PresentedGroups(cl) ==
    LET HasItems(g) == Len(g.items) > 0
    IN SelectSeq(cl.groups, HasItems)

\* The entries of the "Next 3 Priority Actions" list:
\*   checklist.next_3_actions.map((action, idx) => <li key={idx}>{action}</li>)
PresentedActions(cl) == cl.next_3_actions

\* ------------------------------------------------------------------- Sidebar
\* Everything but the sidebar, its requests and the session list of the server.
appVars == <<pageVars, checklistVars, modalVars, netVars, srvVars, routeVars>>

\* {isLoading ? (loading) : sessions.length === 0 ? (empty) : sessions.map(...)}
SessionsShown == IF sbIsLoading THEN <<>> ELSE sbSessions

PathOf(sessionId) == "/session/" \o sessionId

\* sessions.filter(s => s.session_id !== sessionId)
WithoutSession(sessions, sessionId) ==
    LET Other(x) == x.session_id # sessionId
    IN SelectSeq(sessions, Other)

\* loadSessions up to its await.
LoadSessionsCall ==
    /\ sbIsLoading' = TRUE
    /\ listReqs' = listReqs \cup {[rid |-> FreshRid(listReqs), data |-> Null]}

\* The pathname changes: the effect on [pathname] calls loadSessions.
PathnameChanges(path) ==
    /\ pathname' = path
    /\ IF path # pathname THEN LoadSessionsCall ELSE UNCHANGED <<sbIsLoading, listReqs>>

\* A click on a session of the list, or on New Chat: router.push.
Navigate(path) ==
    /\ path # pathname
    /\ Cardinality(listReqs) < MaxListLoads
    /\ \/ path = "/"
       \/ \E n \in DOMAIN SessionsShown : path = PathOf(SessionsShown[n].session_id)
    /\ PathnameChanges(path)
    /\ event' = NoEvent
    /\ UNCHANGED <<appVars, sbSessions, deleteReqs, srvSessions>>

\* GET /sessions: the server reads its list for a request.
ListServe(req) ==
    /\ req \in listReqs
    /\ req.data = Null
    /\ listReqs' = (listReqs \ {req}) \cup {[req EXCEPT !.data = Some(srvSessions)]}
    /\ event' = NoEvent
    /\ UNCHANGED <<appVars, sbSessions, sbIsLoading, pathname, deleteReqs, srvSessions>>

\* loadSessions after listSessions resolved.
ListResolve(req) ==
    /\ req \in listReqs
    /\ req.data # Null
    /\ sbSessions' = Val(req.data)
    /\ sbIsLoading' = FALSE
    /\ listReqs' = listReqs \ {req}
    /\ event' = [kind |-> "listResolved"]
    /\ UNCHANGED <<appVars, pathname, deleteReqs, srvSessions>>

\* loadSessions after listSessions failed: logged, the list stays.
ListFail(req) ==
    /\ req \in listReqs
    /\ req.data = Null
    /\ sbIsLoading' = FALSE
    /\ listReqs' = listReqs \ {req}
    /\ event' = NoEvent
    /\ UNCHANGED <<appVars, sbSessions, pathname, deleteReqs, srvSessions>>

\* handleDeleteSession up to its await: the delete button of a session shown,
\* the confirm dialog accepted.  The request carries what the continuation
\* reads from this render: sessions and pathname.
DeleteClick(sessionId) ==
    /\ \E n \in DOMAIN SessionsShown : SessionsShown[n].session_id = sessionId
    /\ Cardinality(deleteReqs) < MaxDeleteCalls
    /\ deleteReqs' = deleteReqs \cup
          {[rid |-> FreshRid(deleteReqs), id |-> sessionId, served |-> FALSE,
            closure |-> [sessions |-> sbSessions, pathname |-> pathname]]}
    /\ event' = NoEvent
    /\ UNCHANGED <<appVars, sbSessions, sbIsLoading, pathname, listReqs, srvSessions>>

\* DELETE /sessions/{id}: the server deletes a session it has.
DeleteServe(req) ==
    /\ req \in deleteReqs
    /\ ~req.served
    /\ \E n \in DOMAIN srvSessions : srvSessions[n].session_id = req.id
    /\ srvSessions' = WithoutSession(srvSessions, req.id)
    /\ deleteReqs' = (deleteReqs \ {req}) \cup {[req EXCEPT !.served = TRUE]}
    /\ event' = NoEvent
    /\ UNCHANGED <<appVars, sbSessions, sbIsLoading, pathname, listReqs>>

\* handleDeleteSession after deleteSession resolved.
DeleteResolve(req) ==
    /\ req \in deleteReqs
    /\ req.served
    /\ sbSessions' = WithoutSession(req.closure.sessions, req.id)
    /\ IF req.closure.pathname = PathOf(req.id)
       THEN PathnameChanges("/")
       ELSE UNCHANGED <<pathname, sbIsLoading, listReqs>>
    /\ deleteReqs' = deleteReqs \ {req}
    /\ event' = [kind |-> "deleteResolved", id |-> req.id]
    /\ UNCHANGED <<appVars, srvSessions>>

\* handleDeleteSession after deleteSession failed (the request was lost, or the
\* server does not have the session).
DeleteFail(req) ==
    /\ req \in deleteReqs
    /\ ~req.served
    /\ deleteReqs' = deleteReqs \ {req}
    /\ event' = [kind |-> "deleteFailed", id |-> req.id, before |-> sbSessions,
                 alert |-> "Failed to delete session. Please try again."]
    /\ UNCHANGED <<appVars, sbSessions, sbIsLoading, pathname, listReqs, srvSessions>>

\* ------------------------------------------- SessionPage and the route's id
\* SessionPage is the page of the [id] segment: the router keys the segment by
\* the value of id, so a route to another session mounts a new instance and
\* unmounts the old one.
SessionPageRemountsNever(prevId, nextId) == FALSE
SessionPageRemounts(prevId, nextId) == prevId # nextId

\* GET /sessions/{id}
StoredSessionOf(id) ==
    [session_id |-> id, messages |-> srvTranscripts[id], checklist |-> Null]

\* const data = await getSession(sessionId), called by loadSession.
GetSessionRequest(reqs, id) ==
    [rid |-> FreshRid(reqs), kind |-> "getSession", sessionId |-> id,
     content |-> <<>>, mounted |-> TRUE]

\* The calls in flight once their instance is unmounted: their continuations
\* still run, their state updates do nothing.
Unmounted(reqs) == { [r EXCEPT !.mounted = FALSE] : r \in reqs }

\* useEffect(() => { if (sessionId) loadSession() }, [sessionId]) after the
\* route changed to another session: in a new instance when the page
\* remounts, in the same instance otherwise.
RouteChanges(id) ==
    /\ id # routeId
    /\ Cardinality(pageReqs) < MaxPageReqs
    /\ routeId' = id
    /\ IF SessionPageRemounts(routeId, id)
       THEN /\ session' = Null
            /\ isSending' = FALSE
            /\ inputValue' = <<>>
            /\ pageReqs' = LET old == Unmounted(pageReqs)
                           IN old \cup {GetSessionRequest(old, id)}
       ELSE /\ pageReqs' = pageReqs \cup {GetSessionRequest(pageReqs, id)}
            /\ UNCHANGED <<session, isSending, inputValue>>
    /\ pageIsLoading' = TRUE
    /\ event' = [kind |-> "routeChanged", sessionId |-> id]
    /\ UNCHANGED <<checklistVars, modalVars, netVars, srvVars, sidebarVars, srvTranscripts>>

\* loadSession after getSession resolved.
GetSessionResolve(req) ==
    /\ req \in pageReqs
    /\ req.kind = "getSession"
    /\ IF req.mounted
       THEN /\ session' = Some(StoredSessionOf(req.sessionId))
            /\ pageIsLoading' = FALSE
       ELSE UNCHANGED <<session, pageIsLoading>>
    /\ pageReqs' = pageReqs \ {req}
    /\ event' = [kind |-> "getSessionResolved", sessionId |-> req.sessionId,
                 mounted |-> req.mounted]
    /\ UNCHANGED <<isSending, inputValue, checklistVars, modalVars, netVars, srvVars,
                   sidebarVars, routeId, srvTranscripts>>

\* loadSession after getSession failed.
GetSessionFail(req) ==
    /\ req \in pageReqs
    /\ req.kind = "getSession"
    /\ pageIsLoading' = IF req.mounted THEN FALSE ELSE pageIsLoading
    /\ pageReqs' = pageReqs \ {req}
    /\ event' = [kind |-> "getSessionFailed", sessionId |-> req.sessionId,
                 mounted |-> req.mounted, alert |-> "Failed to load session"]
    /\ UNCHANGED <<session, isSending, inputValue, checklistVars, modalVars, netVars,
                   srvVars, sidebarVars, routeId, srvTranscripts>>

\* The user types text and submits the form: handleSend up to its await, with
\* sessionId that of the render.
SendMessageCall(text) ==
    /\ FormShown
    /\ ~HandleSendReturnsEarly(text, isSending, session)
    /\ Cardinality(pageReqs) < MaxPageReqs
    /\ isSending' = TRUE
    /\ session' = Some([Val(session) EXCEPT
                          !.messages = @ \o <<[role |-> "user", content |-> Trim(text)]>>])
    /\ pageReqs' = pageReqs \cup
          {[rid |-> FreshRid(pageReqs), kind |-> "sendMessage", sessionId |-> routeId,
            content |-> Trim(text), mounted |-> TRUE]}
    /\ event' = NoEvent
    /\ UNCHANGED <<pageIsLoading, inputValue, checklistVars, modalVars, netVars, srvVars,
                   sidebarVars, routeId, srvTranscripts>>

\* handleSend after sendMessage resolved: the server appended the turn and
\* its reply to the transcript of the request's session.
SendMessageResolve(req) ==
    /\ req \in pageReqs
    /\ req.kind = "sendMessage"
    /\ Len(srvTranscripts[req.sessionId]) < 2 + 2 * MaxSends
    /\ LET messages == srvTranscripts[req.sessionId]
                          \o << [role |-> "user", content |-> req.content], AssistantReply >>
       IN /\ srvTranscripts' = [srvTranscripts EXCEPT ![req.sessionId] = messages]
          /\ IF req.mounted
             THEN /\ session' = IF IsSome(session)
                                THEN Some([Val(session) EXCEPT
                                             !.messages = MergedMessages(messages, @)])
                                ELSE session
                  /\ isSending' = FALSE
             ELSE UNCHANGED <<session, isSending>>
    /\ pageReqs' = pageReqs \ {req}
    /\ event' = [kind |-> "sendMessageResolved", sessionId |-> req.sessionId,
                 mounted |-> req.mounted]
    /\ UNCHANGED <<pageIsLoading, inputValue, checklistVars, modalVars, netVars, srvVars,
                   sidebarVars, routeId>>

\* handleSend after sendMessage failed.
SendMessageFail(req) ==
    /\ req \in pageReqs
    /\ req.kind = "sendMessage"
    /\ IF req.mounted
       THEN /\ session' = IF IsSome(session)
                          THEN Some([Val(session) EXCEPT !.messages = RollbackMessages(@)])
                          ELSE session
            /\ isSending' = FALSE
       ELSE UNCHANGED <<session, isSending>>
    /\ pageReqs' = pageReqs \ {req}
    /\ event' = [kind |-> "sendMessageFailed", sessionId |-> req.sessionId,
                 mounted |-> req.mounted, alert |-> "Failed to send message"]
    /\ UNCHANGED <<pageIsLoading, inputValue, checklistVars, modalVars, netVars, srvVars,
                   sidebarVars, routeId, srvTranscripts>>

\* ------------------------------------------------------------- specification
\* A session that already has its checklist: the checklist and the knowledge test.
Init == \E stored \in StoredChecklists : InitWith(Some(stored))

Next ==
    \/ LoadResolve
    \/ LoadFail
    \/ \E shown \in AllShown : ToggleClick(shown)
    \/ \E shown \in AllShown : TestKnowledgeClick(shown)
    \/ \E req \in updateReqs : UpdateResolve(req)
    \/ \E req \in updateReqs : UpdateFail(req)
    \/ HandleStart
    \/ \E req \in startReqs, response \in StartResponses : StartResolve(req, response)
    \/ \E req \in startReqs : StartFail(req)
    \/ \E text \in AnswerTexts : TypeAnswer(text)
    \/ SubmitClick
    \/ SubmitKeyDown
    \/ \E req \in answerReqs, r \in RatingValues : AnswerResolve(req, r)
    \/ \E req \in answerReqs : AnswerFail(req)
    \/ HandleClose
    \/ \E t \in timers : TimerFire(t)

Spec == Init /\ [][Next]_vars

\* A session still gathering information: the chat, the arrival of the
\* checklist, and the toggling of its items.
InitChat == \E stored \in {Null, Some(GeneratedChecklist)} : InitWith(stored)

NextChat ==
    \/ LoadResolve
    \/ LoadFail
    \/ \E text \in InputTexts : TypeInput(text)
    \/ HandleSend
    \/ \E req \in sendReqs, generated \in BOOLEAN : SendResolve(req, generated)
    \/ \E req \in sendReqs : SendFail(req)
    \/ \E shown \in AllShown : ToggleClick(shown)
    \/ \E req \in updateReqs : UpdateResolve(req)
    \/ \E req \in updateReqs : UpdateFail(req)

SpecChat == InitChat /\ [][NextChat]_vars

\* Stored checklists that generation and regeneration produce: the page loads
\* and reloads the session while its items are toggled and the checklist is
\* regenerated.
InitGen == \E raw \in RawOutputs : InitWith(Some(Validate(raw, FreshIdsA)))

NextGen ==
    \/ LoadResolve
    \/ LoadFail
    \/ Reload
    \/ \E shown \in AllShown : ToggleClick(shown)
    \/ \E req \in updateReqs : UpdateResolve(req)
    \/ \E req \in updateReqs : UpdateFail(req)
    \/ \E raw \in RawOutputs : Regenerate(raw)

SpecGen == InitGen /\ [][NextGen]_vars

\* The sidebar: the session list, navigation and deletion.
InitSidebar == InitWith(Null)

NextSidebar ==
    \/ \E path \in {"/", PathOf("s1"), PathOf("s2")} : Navigate(path)
    \/ \E req \in listReqs : ListServe(req)
    \/ \E req \in listReqs : ListResolve(req)
    \/ \E req \in listReqs : ListFail(req)
    \/ \E id \in {"s1", "s2"} : DeleteClick(id)
    \/ \E req \in deleteReqs : DeleteServe(req)
    \/ \E req \in deleteReqs : DeleteResolve(req)
    \/ \E req \in deleteReqs : DeleteFail(req)

SpecSidebar == InitSidebar /\ [][NextSidebar]_vars

\* The session page while the route changes between two sessions.
InitRoute == MountedWith(Null) /\ pageReqs = {GetSessionRequest({}, "s1")}

NextRoute ==
    \/ \E id \in {"s1", "s2"} : RouteChanges(id)
    \/ \E req \in pageReqs : GetSessionResolve(req)
    \/ \E req \in pageReqs : GetSessionFail(req)
    \/ \E text \in InputTexts : SendMessageCall(text)
    \/ \E req \in pageReqs : SendMessageResolve(req)
    \/ \E req \in pageReqs : SendMessageFail(req)

SpecRoute == InitRoute /\ [][NextRoute]_vars

\* A session in its chat, or with its checklist and knowledge tests, with
\* every call in flight eventually resolved or failed; the server answers the
\* chat with follow-up questions, and the user opens one knowledge test.
InitLive == \E stored \in {Null} \cup {Some(cl) : cl \in StoredChecklists} : InitWith(stored)

NextLive ==
    \/ LoadResolve
    \/ LoadFail
    \/ \E text \in InputTexts : TypeInput(text)
    \/ HandleSend
    \/ \E req \in sendReqs : SendResolve(req, FALSE)
    \/ \E req \in sendReqs : SendFail(req)
    \/ \E shown \in AllShown : ToggleClick(shown)
    \/ modalInst = 0 /\ \E shown \in AllShown : TestKnowledgeClick(shown)
    \/ \E req \in updateReqs : UpdateResolve(req)
    \/ \E req \in updateReqs : UpdateFail(req)
    \/ HandleStart
    \/ \E req \in startReqs, response \in StartResponses : StartResolve(req, response)
    \/ \E req \in startReqs : StartFail(req)
    \/ \E text \in AnswerTexts : TypeAnswer(text)
    \/ SubmitClick
    \/ SubmitKeyDown
    \/ \E req \in answerReqs, r \in RatingValues : AnswerResolve(req, r)
    \/ \E req \in answerReqs : AnswerFail(req)
    \/ HandleClose
    \/ \E t \in timers : TimerFire(t)

\* A call in flight is answered or fails.
SendCompletes ==
    \E req \in sendReqs : SendResolve(req, FALSE) \/ SendFail(req)
StartCompletes ==
    \E req \in startReqs :
        (\E response \in StartResponses : StartResolve(req, response)) \/ StartFail(req)
AnswerCompletes ==
    \E req \in answerReqs : (\E r \in RatingValues : AnswerResolve(req, r)) \/ AnswerFail(req)
UpdateCompletes ==
    \E req \in updateReqs : UpdateResolve(req) \/ UpdateFail(req)

Fairness ==
    /\ WF_vars(SendCompletes)
    /\ WF_vars(StartCompletes)
    /\ WF_vars(AnswerCompletes)
    /\ WF_vars(UpdateCompletes)

SpecLive == InitLive /\ [][NextLive]_vars /\ Fairness

\* ===================================================================== claims

\* The status the Checklist holds for an item, "none" if it has no such item.
StatusIn(cl, id) ==
    LET it == FindById(FlatItems(cl.groups), id)
    IN IF IsSome(it) THEN Val(it).status ELSE "none"

\* The timer will issue an updateTodo request when it fires.
TimerWillIssue(t) == StatusIn(t.closure, t.todoId) \notin {"done", "none"}

CompletedWith(pass) ==
    /\ event.kind = "answerResolved"
    /\ event.response.is_complete
    /\ event.response.passed = Some(pass)

\* C1 (as stated): when a knowledge test completes with passed = true for an
\* item whose status is 'todo', exactly one updateTodo request setting the
\* item to 'done' is issued: right after the completing response exactly one
\* timeout is pending for the item that will issue the request, and the
\* request a timeout issues sets the status to 'done'.
C1_ExactlyOneAutoUpdate ==
    /\ (CompletedWith(TRUE) /\ event.statusNow = "todo") =>
          Cardinality({t \in timers : /\ t.inst = event.inst
                                      /\ t.todoId = event.todoId
                                      /\ TimerWillIssue(t)}) = 1
    /\ event.kind = "autoIssued" =>
          Cardinality({r \in updateReqs : /\ r.origin # Null
                                          /\ Val(r.origin).inst = event.inst
                                          /\ r.item.id = event.todoId
                                          /\ r.status = "done"}) = 1

\* C1, the state its failure passes through: a passed completion found the
\* item 'todo' in the Checklist, and the timeout it set finds the item 'done'
\* in the checklist of the render that made it.
C1_StaleClosure ==
    /\ CompletedWith(TRUE)
    /\ event.statusNow = "todo"
    /\ \E t \in timers : t.inst = event.inst /\ ~TimerWillIssue(t)

\* C2: a completion with a rating below 7.0 sets no timeout and issues no
\* updateTodo request; every timeout and every request a test made comes from a
\* completion with rating >= 7.0, and such a request sets the status 'done'.
C2_FailedTestChangesNothing ==
    /\ \A t \in timers : t.rating >= PassThreshold
    /\ \A r \in updateReqs :
          r.origin # Null => Val(r.origin).rating >= PassThreshold /\ r.status = "done"
    /\ (/\ event.kind = "answerResolved"
        /\ event.response.is_complete
        /\ Val(event.response.rating) < PassThreshold) =>
          /\ \A t \in timers : t.inst # event.inst
          /\ \A r \in updateReqs : r.origin # Null => Val(r.origin).inst # event.inst

C2_Witness ==
    /\ event.kind = "answerResolved"
    /\ event.response.is_complete
    /\ event.response.rating = Some(PassThreshold - 1)
    /\ event.statusNow = "todo"

\* C3: an id that is not a UUID never reaches the interview endpoints: no start
\* or answer request carries one, the modal is never open for one, the server
\* holds no interview for one, and the attempt to test such an item is refused
\* with the advice to regenerate the checklist, the modal staying closed and in
\* its initial state.
C3_NonUuidNeverInterviewed ==
    /\ \A r \in startReqs : UuidRegexTest(r.todoId)
    /\ \A r \in answerReqs : UuidRegexTest(r.todoId)
    /\ interviewTodoId # Null => UuidRegexTest(Val(interviewTodoId))
    /\ \A id \in AllItemIds : ~UuidRegexTest(id) => srvInterviews[id] = Null
    /\ event.kind = "testRefused" =>
          /\ ~UuidRegexTest(event.todoId)
          /\ event.alert = "Invalid checklist item ID. Please refresh the page to regenerate the checklist."
          /\ ~ModalOpen
          /\ modal = FreshModal
    /\ event.kind # "startRefused"

C3_Witness ==
    /\ event.kind = "testRefused"
    /\ event.todoId = IdNotHex

\* C4: while a modal instance shows a completed test, no step issues an answer
\* request, and unless the step closes the modal the completion (is_complete,
\* rating, passed, overall feedback) stays as it is.
C4_CompletionTerminal ==
    [][(ModalOpen /\ modal.isComplete) =>
          /\ answerReqs' \subseteq answerReqs
          /\ ModalOpen' =>
                /\ modalInst' = modalInst
                /\ modal'.isComplete
                /\ modal'.rating = modal.rating
                /\ modal'.passed = modal.passed
                /\ modal'.overallFeedback = modal.overallFeedback]_vars

C4_Witness ==
    /\ ModalOpen
    /\ modal.isComplete
    /\ modal.passed = Some(TRUE)
    /\ event.kind = "autoIssued"

C6_OneAnswerInFlight ==
    \A i \in 1..(MaxInstances + 1) : Cardinality({r \in answerReqs : r.inst = i}) <= 1

C6_Witness ==
    /\ ModalOpen
    /\ modal.isLoading
    /\ \E r \in answerReqs : r.inst = modalInst
    /\ \E r \in answerReqs : r.inst # modalInst

\* C7: a modal that opens is in its initial state (no question, empty history,
\* no feedback, no rating, not complete), whatever the state in which the
\* earlier instance was closed, and a response to a request of an instance
\* that is no longer the mounted one leaves the modal's state as it is.
C7_ReopenStartsFresh ==
    [][/\ (~ModalOpen /\ ModalOpen') => modal' = FreshModal
       /\ \A r \in startReqs \ startReqs' : r.inst # modalInst => modal' = modal
       /\ \A r \in answerReqs \ answerReqs' : r.inst # modalInst => modal' = modal]_vars

C7_Witness ==
    /\ ModalOpen
    /\ modalInst = 2
    /\ modal.currentQuestion = Null
    /\ modal.history = <<>>
    /\ event.kind = "answerResolved"
    /\ event.inst = 1

\* C8: at most one sendMessage request is in flight, and while one is, no step
\* issues another, and a step that leaves it in flight leaves the transcript
\* as it is.
C8_OneSendInFlight ==
    [][/\ Cardinality(sendReqs') <= 1
       /\ sendReqs # {} =>
             /\ sendReqs' \subseteq sendReqs
             /\ sendReqs' = sendReqs => session' = session]_vars

C8_Witness ==
    /\ event.kind = "sendDropped"
    /\ event.sending
    /\ sendReqs # {}

\* C9: when a sendMessage call fails, the session the page holds is the one it
\* held before the call: the same messages, the same checklist.
C9_FailedSendRestores ==
    event.kind = "sendFailed" => session = Some(event.before)

C9_Witness ==
    /\ event.kind = "sendFailed"
    /\ Len(Val(session).messages) > 2

\* C10: no sendMessage request is issued, and none is in flight, while the
\* session has a checklist.
C10_NoSendWithChecklist ==
    [][/\ (sendReqs' \ sendReqs # {}) => (session # Null /\ Val(session).checklist = Null)
       /\ (session' # Null /\ Val(session').checklist # Null) => sendReqs' = {}]_vars

C10_Witness ==
    /\ session # Null
    /\ Val(session).checklist # Null
    /\ Len(Val(session).messages) > 2
    /\ event.kind = "sendResolved"

\* C11: once the session the page holds has a checklist, every step leaves it
\* with one: no send response, toggle or failure takes the page back from the
\* checklist view to the chat view.
C11_ReadyIsAbsorbing ==
    [][(session # Null /\ Val(session).checklist # Null) =>
          /\ session' # Null
          /\ Val(session').checklist # Null
          /\ ~FormShown'
          /\ ChecklistMounted']_vars

C11_Witness ==
    /\ session # Null
    /\ Val(session).checklist # Null
    /\ Len(Val(session).messages) > 2
    /\ event.kind = "updateResolved"
    /\ StatusIn(Val(Val(session).checklist), event.item) = "done"

\* C12 (as stated): a toggle that succeeds changes the status of its own item
\* and of no other: the checklist shown after the response has the new status
\* for the toggled item and, for every other item, the status shown before
\* the response, so that two concurrent toggles of different items are both
\* shown once both have resolved.
C12_TogglesIndependent ==
    (event.kind = "updateResolved" /\ checklist # Null /\ event.before # Null) =>
       /\ StatusIn(Val(checklist), event.item) = event.status
       /\ \A id \in AllItemIds \ {event.item} :
             StatusIn(Val(checklist), id) = StatusIn(Val(event.before), id)

\* C12, the state of its failure: both toggles have resolved and the second
\* response has put another item back to the status it had before its toggle.
C12_LostUpdate ==
    /\ event.kind = "updateResolved"
    /\ updateReqs = {}
    /\ checklist # Null
    /\ event.before # Null
    /\ \E id \in AllItemIds \ {event.item} :
          /\ StatusIn(Val(event.before), id) = "done"
          /\ StatusIn(Val(checklist), id) = "todo"

\* C13 (as stated): for every item id at most one updateTodo request is in
\* flight, manual toggles and the automatic completion of a passed knowledge
\* test counted together.
C13_OneUpdatePerItem ==
    \A id \in AllItemIds : Cardinality({r \in updateReqs : r.item.id = id}) <= 1

\* C13, the state of its failure: a manual toggle and the automatic completion
\* of a passed test are in flight for the same item.
C13_ManualAndAutomatic ==
    \E r1, r2 \in updateReqs :
       /\ r1.item.id = r2.item.id
       /\ r1.origin = Null
       /\ r2.origin # Null

\* C14: a toggle changes nothing but statuses, so toggling an item to done and
\* back to todo restores the checklist exactly: whenever every item of the
\* checklist shown has the status it had in the checklist first received, the
\* checklist shown, and the one the page holds, is that checklist (ids, group
\* keys, texts, priorities, estimates, rationales, group order, title,
\* assumptions and next_3_actions included).
C14_StatusRoundTrip ==
    checklist # Null =>
       /\ (\A id \in AllItemIds :
              StatusIn(Val(checklist), id) = StatusIn(GeneratedChecklist, id))
             => Val(checklist) = GeneratedChecklist
       /\ event.kind = "updateResolved" =>
             /\ Val(session).checklist = checklist
             /\ StatusIn(Val(checklist), event.item) = event.status

C14_Witness ==
    /\ event.kind = "updateResolved"
    /\ event.status = "todo"
    /\ updateReqs = {}
    /\ checklist = Some(GeneratedChecklist)
    /\ event.before = Some(WithStatus(GeneratedChecklist, event.item, "done"))

\* The items of a checklist, as a set.
ItemSet(cl) == {FlatItems(cl.groups)[i] : i \in DOMAIN FlatItems(cl.groups)}

\* C15: after a regeneration, every item of the new checklist whose normalised
\* text is that of an item that was done in the old checklist is done: a done
\* item that is matched does not revert to todo.
C15_CarryForward ==
    (event.kind = "regenerated" /\ srvChecklist # Null) =>
       \A new \in ItemSet(Val(srvChecklist)) :
          (\E old \in ItemSet(event.old) :
              old.status = "done" /\ Normalize(old.text) = Normalize(new.text))
             => new.status = "done"

C15_Witness ==
    /\ event.kind = "regenerated"
    /\ \E new \in ItemSet(Val(srvChecklist)), old \in ItemSet(event.old) :
          /\ old.status = "done"
          /\ old.text # new.text
          /\ old.id # new.id
          /\ Normalize(old.text) = Normalize(new.text)
          /\ new.status = "done"
    /\ \E new \in ItemSet(Val(srvChecklist)) : new.status = "todo"

\* C16: every checklist the page holds and the Checklist component presents
\* has at most 3 next actions, shows at most 3, and has no group whose key is
\* not one of context, skills, evidence, delivery, logistics.
C16_ValidChecklistShape ==
    /\ checklist # Null =>
          /\ Len(Val(checklist).next_3_actions) <= MaxNextActions
          /\ Len(PresentedActions(Val(checklist))) <= MaxNextActions
          /\ \A g \in DOMAIN Val(checklist).groups :
                Val(checklist).groups[g].key \in
                   {"context", "skills", "evidence", "delivery", "logistics"}
    /\ (session # Null /\ Val(session).checklist # Null) =>
          /\ Len(Val(Val(session).checklist).next_3_actions) <= MaxNextActions
          /\ \A g \in DOMAIN Val(Val(session).checklist).groups :
                Val(Val(session).checklist).groups[g].key \in
                   {"context", "skills", "evidence", "delivery", "logistics"}

C16_Witness ==
    /\ checklist # Null
    /\ Val(checklist).title = "second"
    /\ PresentedActions(Val(checklist)) = <<"n1", "n2", "n3">>
    /\ event.kind = "updateResolved"

\* C17: the Checklist presents a group exactly when it has an item, presents
\* the groups in the order of the checklist, and the checklist it holds keeps
\* all its groups, the empty ones too.
C17_EmptyGroupsSuppressed ==
    checklist # Null =>
       LET groups == Val(checklist).groups
           shown == PresentedGroups(Val(checklist))
           Position(n) == CHOOSE k \in DOMAIN groups : groups[k] = shown[n]
       IN /\ \A k \in DOMAIN groups :
                (\E n \in DOMAIN shown : shown[n] = groups[k]) <=> groups[k].items # <<>>
          /\ \A n \in DOMAIN shown : \E k \in DOMAIN groups : groups[k] = shown[n]
          /\ \A m, n \in DOMAIN shown : m < n => Position(m) < Position(n)
          /\ [k \in DOMAIN groups |-> groups[k].key] = FixedGroupKeys

C17_Witness ==
    /\ checklist # Null
    /\ Len(PresentedGroups(Val(checklist))) = 2
    /\ \E k \in DOMAIN Val(checklist).groups : Val(checklist).groups[k].items = <<>>
    /\ event.kind = "updateResolved"

\* The user's delete of the session has succeeded: the server no longer has it
\* and no delete of it is in flight.
Deleted(sessionId) ==
    /\ \A n \in DOMAIN srvSessions : srvSessions[n].session_id # sessionId
    /\ \A r \in deleteReqs : r.id # sessionId

\* C18 (as stated): a session whose delete has succeeded is not in the
\* sidebar's list, whatever requests resolve afterwards, and a failed delete
\* leaves the list as it was.
C18_DeletedStaysDeleted ==
    /\ \A id \in {"s1", "s2"} :
          Deleted(id) => \A n \in DOMAIN sbSessions : sbSessions[n].session_id # id
    /\ event.kind = "deleteFailed" => sbSessions = event.before

\* C18, a state of its failure: the delete of another session has just
\* resolved and the list has a session again whose delete succeeded before.
C18_DeletedReappears ==
    /\ event.kind = "deleteResolved"
    /\ listReqs = {}
    /\ \E n \in DOMAIN sbSessions :
          /\ sbSessions[n].session_id # event.id
          /\ Deleted(sbSessions[n].session_id)

\* C19: a knowledge test is opened only for an item of the 'skills' group whose
\* status is not 'done': in every step that opens the interview modal, the item
\* the modal is opened for is shown in the skills group of the checklist with
\* status 'todo' at that moment.
C19_OnlySkillsTodoTested ==
    [][(~ModalOpen /\ ModalOpen') =>
          /\ IsSome(checklist)
          /\ \E shown \in AllShown :
                /\ shown.item.id = Val(interviewTodoId')
                /\ shown.item.text = Val(interviewTodoText')
                /\ shown.group = "skills"
                /\ shown.item.status = "todo"]_vars

\* The modal is open for a skills item whose status has become 'done' since
\* the test was opened.
C19_Witness ==
    /\ ModalOpen
    /\ \E shown \in AllShown :
          /\ shown.item.id = Val(interviewTodoId)
          /\ shown.group = "skills"
          /\ shown.item.status = "done"

\* C20: when a knowledge test completes, the modal that is still open holds the
\* final rating of the completion response and shows it (to one decimal), for
\* every rating from 0 to 10, together with the pass flag.
C20_FinalRatingShown ==
    (/\ event.kind = "answerResolved"
     /\ event.response.is_complete
     /\ ModalOpen
     /\ modalInst = event.inst) =>
        /\ modal.isComplete
        /\ modal.rating = event.response.rating
        /\ RatingShown(modal) = Some(ToFixed1(Val(event.response.rating)))
        /\ PassedShown(modal) = Val(event.response.passed)

\* A test completed with rating 0: the open modal is complete, holds no
\* rating and shows none.
C20_RatingZeroHidden ==
    /\ event.kind = "answerResolved"
    /\ event.response.is_complete
    /\ event.response.rating = Some(0)
    /\ ModalOpen
    /\ modalInst = event.inst
    /\ modal.isComplete
    /\ modal.rating = Null
    /\ RatingShown(modal) = Null

\* C21: a failed updateTodo changes nothing but the lock: the step in which the
\* failure is handled leaves the local checklist and the parent's session as
\* they were, alerts, and takes the item's id out of updatingIds, so that the
\* item's toggle is enabled again.
C21_FailedUpdateChangesNothing ==
    [][\A req \in updateReqs \ updateReqs' :
          event'.kind = "updateFailed" =>
             /\ checklist' = checklist
             /\ session' = session
             /\ srvChecklist' = srvChecklist
             /\ event'.alert = "Failed to update todo. Please try again."
             /\ req.item.id \notin updatingIds'
             /\ updatingIds' \subseteq updatingIds]_vars

\* An update failed while the update of another item is still in flight; the
\* checklist is the one received and the failed item can be toggled again.
C21_Witness ==
    /\ event.kind = "updateFailed"
    /\ updateReqs # {}
    /\ checklist = Some(GeneratedChecklist)
    /\ \E shown \in AllShown : ~ToggleDisabled(shown.item) /\ shown.item.status = "todo"

\* C22: a failed answerInterviewQuestion does not advance the knowledge test.
\* While the answer of the mounted modal is in flight its current question
\* stays; the step that handles the failure keeps the current question and its
\* number, leaves is_complete false, sets no completion timer (onComplete is
\* not called), touches neither the checklist nor the server's sub-dialogue,
\* clears loading and alerts, so that the asking view takes an answer again.
C22_FailedAnswerDoesNotAdvance ==
    [][/\ \A req \in answerReqs \cap answerReqs' :
             (req.inst = modalInst /\ ModalOpen /\ ModalOpen' /\ modalInst' = modalInst) =>
                modal'.currentQuestion = modal.currentQuestion
       /\ \A req \in answerReqs \ answerReqs' :
             (event'.kind = "answerFailed" /\ StillMounted(req)) =>
                /\ IsSome(modal.currentQuestion)
                /\ modal'.currentQuestion = modal.currentQuestion
                /\ ~modal'.isComplete
                /\ ~modal'.isLoading
                /\ modal'.rating = Null /\ modal'.passed = Null
                /\ timers' = timers
                /\ updateReqs' = updateReqs
                /\ checklist' = checklist
                /\ srvInterviews' = srvInterviews
                /\ event'.alert = "Failed to submit answer. Please try again."
                /\ AskingViewShown'
                /\ ~AnswerTextareaDisabled']_vars

\* The answer to the second question failed: the modal still asks the second
\* question, is not loading, and its history ends with the answer that was sent.
C22_Witness ==
    /\ event.kind = "answerFailed"
    /\ ModalOpen
    /\ modalInst = event.inst
    /\ IsSome(modal.currentQuestion)
    /\ Val(modal.currentQuestion).question_number = 2
    /\ ~modal.isLoading
    /\ modal.history[Len(modal.history)].role = "user"

\* C23: a startInterview that fails, or that succeeds without a question,
\* leaves the mounted modal not started: no current question, an empty
\* history, not complete, not loading, and the start view with its button
\* enabled is shown again.
C23_FailedStartLeavesNotStarted ==
    [][\A req \in startReqs \ startReqs' :
          (/\ StillMounted(req)
           /\ \/ event'.kind = "startFailed"
              \/ event'.kind = "startResolved" /\ event'.response.question = Null) =>
             /\ modal'.currentQuestion = Null
             /\ modal'.history = <<>>
             /\ ~modal'.isComplete
             /\ ~modal'.isLoading
             /\ modal' = FreshModal
             /\ StartViewShown'
             /\ ModalOpen'
             /\ timers' = timers]_vars

\* A start was answered without a question and the modal shows the start view
\* with no request in flight.
C23_Witness ==
    /\ event.kind = "startResolved"
    /\ event.response.question = Null
    /\ ModalOpen
    /\ modalInst = event.inst
    /\ StartViewShown
    /\ ~modal.isLoading
    /\ startReqs = {}

\* C24: after a successful sendMessage the transcript shown is exactly the
\* messages array of the response: the optimistic user message is replaced, so
\* the transcript is the one before the send followed by the user's message
\* once and by the reply, in the server's order.
C24_TranscriptIsResponse ==
    (event.kind = "sendResolved" /\ IsSome(session)) =>
        LET shown == Val(session).messages
            n == Len(event.before.messages)
        IN /\ shown = event.messages
           /\ shown = srvMessages
           /\ Len(shown) = n + 2
           /\ SubSeq(shown, 1, n) = event.before.messages
           /\ shown[n + 1] = [role |-> "user", content |-> event.content]
           /\ shown[n + 2].role = "assistant"

\* The second send of a session resolved.
C24_Witness ==
    /\ event.kind = "sendResolved"
    /\ IsSome(session)
    /\ Len(event.before.messages) > 2
    /\ Val(session).messages = event.messages

\* A transcript that is an initial part of what the server stores for the session.
BelongsTo(messages, id) ==
    /\ Len(messages) <= Len(srvTranscripts[id])
    /\ messages = SubSeq(srvTranscripts[id], 1, Len(messages))

C26_UpdatingIdsExact ==
    /\ \A id \in AllItemIds :
          id \in updatingIds <=> \E r \in updateReqs : r.item.id = id
    /\ updateReqs = {} => updatingIds = {}

\* An updateTodo request for an item is in flight while the item's id is not
\* in updatingIds and its toggle is enabled.
C26_InFlightUnlocked ==
    /\ ChecklistMounted
    /\ \E r \in updateReqs :
          /\ r.item.id \notin updatingIds
          /\ \E shown \in AllShown : shown.item.id = r.item.id /\ ~ToggleDisabled(shown.item)

\* C27: automatic completion only moves an item towards done: every updateTodo
\* request issued because a knowledge test passed carries status 'done', and
\* none is issued for an item that is 'done' in the Checklist's state when the
\* timeout of the passed test fires.
C27_AutoOnlyTowardsDone ==
    /\ \A r \in updateReqs : r.origin # Null => r.status = "done"
    /\ (event.kind = "autoIssued" /\ IsSome(checklist)) =>
          StatusIn(Val(checklist), event.todoId) # "done"

\* The timeout of a passed test issued a request for an item that the
\* Checklist holds as 'done'.
C27_RedundantAutoUpdate ==
    /\ event.kind = "autoIssued"
    /\ IsSome(checklist)
    /\ StatusIn(Val(checklist), event.todoId) = "done"
    /\ \E r \in updateReqs : r.origin # Null /\ r.item.id = event.todoId /\ r.status = "done"

\* C28: no operation leaves the interface loading for ever: if every call in
\* flight eventually resolves or fails, isSending, the modal's isLoading and
\* every id in updatingIds are eventually cleared.
C28_LoadingEventuallyCleared ==
    /\ isSending ~> ~isSending
    /\ modal.isLoading ~> ~modal.isLoading
    /\ \A id \in AllItemIds : (id \in updatingIds) ~> (id \notin updatingIds)

\* An answer failed and the modal is not loading, while an update of an item
\* is still in flight.
C28_Witness ==
    /\ event.kind = "answerFailed"
    /\ ModalOpen
    /\ ~modal.isLoading
    /\ ~isSending
    /\ updatingIds # {}

====
